---- MODULE Spec2Model ----
(***************************************************************************)
(* The party server of DeathroomMultiplayerRaid (src/server/server.js):    *)
(* the registry of parties, the room generator and the socket handlers     *)
(* hostParty, joinParty, startGame, playerInput, playerAttack,             *)
(* playerDamaged, collectLoot and disconnect.  Node runs one handler at a  *)
(* time to completion, so every handler is one atomic action.  The boss a  *)
(* client renders (src/client/js/entities/boss.js) is followed on its own. *)
(***************************************************************************)
EXTENDS Integers, Sequences, FiniteSets, TLC

VARIABLES
    sockets,       \* socket id -> "open" | "closed"
    parties,       \* const parties = {} : party code -> party record
    order,         \* the party codes in the order they were inserted
    subscribed,    \* socket.io rooms: party code -> sockets joined to it
    out,           \* the events the last handler emitted, in order
    gameOverSent,  \* history: codes of live parties that were sent gameOver
    gameStartedSent, \* history: codes of live parties that were sent gameStarted
    intent,        \* the name of the event the last handler was registered for
    running,       \* FALSE once an uncaught exception has ended the process
    steps,         \* the number of intents handled so far
    currentBoss    \* a client's game.currentBoss: null or the Boss it renders

\* The variables of the server.
serverVars == <<sockets, parties, order, subscribed, out, gameOverSent,
               gameStartedSent, intent, running, steps>>
vars == <<sockets, parties, order, subscribed, out, gameOverSent,
         gameStartedSent, intent, running, steps, currentBoss>>

(***************************************************************************)
(* Bounds of the model.                                                    *)
(***************************************************************************)
MaxConns == 3
MaxSteps == 4
MaxRoom == 2
BossHealthCap == 300
PlayerHealthCap == 150

Conns == 1..MaxConns
\* "234567" is an integer-like key: JavaScript enumerates it before the
\* string keys, whatever the insertion order.
Codes == {"ABCDEF", "234567"}
IntegerKeys == {"234567"}
\* What a joiner may send as a code: a generated code, or one typed in lower
\* case.  String.prototype.toUpperCase maps it to the generated spelling.
LowerCaseCodes == {"abcdef"}
JoinCodes == Codes \cup LowerCaseCodes
toUpperCase(code) == IF code = "abcdef" THEN "ABCDEF" ELSE code
AttackDamages == {-100, 100, 200}
DamageAmounts == {-50, 50, 100}

(***************************************************************************)
(* Values.                                                                 *)
(***************************************************************************)
Min(a, b) == IF a <= b THEN a ELSE b
Max(a, b) == IF a >= b THEN a ELSE b

\* `boss-${n}`, `room-${n}`, `enemy-...`: a prefix and a number.
Id(prefix, n) == [prefix |-> prefix, n |-> n]
StartsWith(id, prefix) == id.prefix = prefix

Includes(seq, x) == \E i \in 1..Len(seq) : seq[i] = x
\* Array.prototype.indexOf, 1-based; 0 stands for -1.
IndexOf(seq, x) ==
    IF Includes(seq, x)
    THEN CHOOSE i \in 1..Len(seq) :
             seq[i] = x /\ \A j \in 1..(i - 1) : seq[j] # x
    ELSE 0
\* splice(i, 1)
RemoveAt(seq, i) == [j \in 1..(Len(seq) - 1) |-> IF j < i THEN seq[j] ELSE seq[j + 1]]
\* findIndex(e => e.id === id), 1-based; 0 stands for -1.
FindIndexById(seq, id) ==
    IF \E i \in 1..Len(seq) : seq[i].id = id
    THEN CHOOSE i \in 1..Len(seq) :
             seq[i].id = id /\ \A j \in 1..(i - 1) : seq[j].id # id
    ELSE 0

\* An emitted event: io.to(room).emit(name, data) and socket.to(room).emit(...)
\* reach the sockets `to` of the room; socket.emit(name, data) is To(c, ...).
Ev(name, room, to, data) == [name |-> name, room |-> room, to |-> to, data |-> data]
To(c, name, data) == Ev(name, "", {c}, data)
Emitted(events, name, room) ==
    \E i \in 1..Len(events) : events[i].name = name /\ events[i].room = room

(***************************************************************************)
(* Room generation.                                                        *)
(***************************************************************************)
roomTypes ==
    << [name |-> "Dungeon Cell", difficulty |-> 1],
       [name |-> "Torture Chamber", difficulty |-> 2],
       [name |-> "Crypt", difficulty |-> 3],
       [name |-> "Summoning Room", difficulty |-> 4],
       [name |-> "Throne Room", difficulty |-> 5] >>

\* The table with one row's damage mistyped.
bossTypesMistyped ==
    << [name |-> "Reanimated Executioner", health |-> 200, damage |-> 20],
       [name |-> "Blood Acolyte", health |-> 300, damage |-> 25],
       [name |-> "Pit Fiend", health |-> 400, damage |-> 35],
       [name |-> "Necrotic Hierophant", health |-> 500, damage |-> 35],
       [name |-> "Deathlord", health |-> 750, damage |-> 40] >>

bossTypes ==
    << [name |-> "Reanimated Executioner", health |-> 200, damage |-> 20],
       [name |-> "Blood Acolyte", health |-> 300, damage |-> 25],
       [name |-> "Pit Fiend", health |-> 400, damage |-> 30],
       [name |-> "Necrotic Hierophant", health |-> 500, damage |-> 35],
       [name |-> "Deathlord", health |-> 750, damage |-> 40] >>

\* The room type follows the boss's divisor.
RoomTypeIndexByFive(difficulty) == Min(difficulty \div 5, Len(roomTypes) - 1)
\* Math.min(Math.floor(difficulty / 3), roomTypes.length - 1)
RoomTypeIndex(difficulty) == Min(difficulty \div 3, Len(roomTypes) - 1)
\* Math.min(Math.floor(difficulty / 5), bossTypes.length - 1)
BossIndex(difficulty) == Min(difficulty \div 5, Len(bossTypes) - 1)

\* The boss is left at its initial null.
generateRoomWithoutBoss(difficulty) ==
    [id |-> Id("room", difficulty),
     type |-> roomTypes[RoomTypeIndex(difficulty) + 1].name,
     difficulty |-> difficulty,
     isBossRoom |-> TRUE,
     enemies |-> << >>,
     boss |-> << >>,
     loot |-> << >>]

\* A room's boss is null or an object: a sequence of length 0 or 1.
generateRoom(difficulty) ==
    LET roomType == roomTypes[RoomTypeIndex(difficulty) + 1]
        bossIndex == BossIndex(difficulty)
        boss == [name |-> bossTypes[bossIndex + 1].name,
                 health |-> bossTypes[bossIndex + 1].health,
                 damage |-> bossTypes[bossIndex + 1].damage,
                 id |-> Id("boss", difficulty),
                 type |-> bossIndex]
    IN  [id |-> Id("room", difficulty),
         type |-> roomType.name,
         difficulty |-> difficulty,
         isBossRoom |-> TRUE,
         enemies |-> << >>,
         boss |-> << boss >>,
         loot |-> << >>]

NewPlayerState == [health |-> 100, maxHealth |-> 100, level |-> 1, kills |-> 0]

(***************************************************************************)
(* The registry.                                                           *)
(***************************************************************************)
Live == DOMAIN parties
\* The party exists; who sends the intent is not looked at.
IsMemberUnchecked(c, code) == code \in Live
\* parties[partyCode] && parties[partyCode].players.includes(socket.id)
IsMember(c, code) == code \in Live /\ Includes(parties[code].players, c)
\* for (const partyCode in parties): integer-like keys first, then the
\* string keys in insertion order.
KeyOrder ==
    SelectSeq(order, LAMBDA k : k \in IntegerKeys)
        \o SelectSeq(order, LAMBDA k : k \notin IntegerKeys)
CurrentRoomOf(party) == party.state.rooms[party.state.currentRoom + 1]
SetParty(code, party) == [k \in Live \cup {code} |-> IF k = code THEN party ELSE parties[k]]
DeleteParty(code) == [k \in Live \ {code} |-> parties[k]]

Init ==
    /\ sockets = [c \in Conns |-> "open"]
    /\ parties = [k \in {} |-> 0]
    /\ order = << >>
    /\ subscribed = [k \in Codes |-> {}]
    /\ out = << >>
    /\ gameOverSent = {}
    /\ gameStartedSent = {}
    /\ running = TRUE
    /\ intent = "connection"
    /\ steps = 0
    /\ currentBoss = << >>

(***************************************************************************)
(* io.on('connection') only registers the handlers below: the server with  *)
(* MaxConns open sockets and no party is the state the model starts in.    *)
(* socket.io gives every connection a fresh id, so a closed socket's id is *)
(* never used again.  Handled(c) is the part common to every handler: the *)
(* socket is open, and the model follows the server for MaxSteps intents.  *)
(* No handler of the server touches a client's objects.                    *)
(***************************************************************************)
Handled(c) ==
    /\ sockets[c] = "open"
    /\ steps < MaxSteps
    /\ steps' = steps + 1
    /\ UNCHANGED currentBoss

\* An exception no handler catches ends the node process: the registry, the
\* rooms and every connection are gone.  What the handler emitted before it
\* threw has or has not left the process.
uncaughtException(events) ==
    /\ running' = FALSE
    /\ sockets' = [s \in Conns |-> "closed"]
    /\ parties' = [k \in {} |-> 0]
    /\ order' = << >>
    /\ subscribed' = [k \in Codes |-> {}]
    /\ gameOverSent' = {}
    /\ gameStartedSent' = {}
    /\ out' \in {<< >>, events}

(***************************************************************************)
(* socket.on('hostParty')                                                  *)
(***************************************************************************)
\* The generated code is returned without looking it up in parties.
generatePartyCodeUnchecked == Codes
\* generatePartyCode: some code that is not a key of parties.
generatePartyCode == Codes \ Live

\* The host's PlayerState starts at half health.
hostPartyWounded(c, partyCode) ==
    [host |-> c,
     players |-> << c >>,
     state |-> [currentRoom |-> 0,
                rooms |-> << generateRoom(0) >>,
                playerStates |-> [p \in {c} |-> [NewPlayerState EXCEPT !.health = 50]]]]

hostParty(c, partyCode) ==
    [host |-> c,
     players |-> << c >>,
     state |-> [currentRoom |-> 0,
                rooms |-> << generateRoom(0) >>,
                playerStates |-> [p \in {c} |-> NewPlayerState]]]

HostParty(c) ==
    /\ \E partyCode \in generatePartyCode :
        /\ Handled(c)
        /\ intent' = "hostParty"
        /\ parties' = SetParty(partyCode, hostParty(c, partyCode))
        /\ order' = Append(order, partyCode)
        /\ subscribed' = [subscribed EXCEPT ![partyCode] = @ \cup {c}]
        /\ out' = << To(c, "partyHosted", partyCode) >>
    /\ UNCHANGED <<sockets, gameOverSent, gameStartedSent, running>>

(***************************************************************************)
(* socket.on('joinParty')                                                  *)
(***************************************************************************)
PartyCap == 4

\* A party is full only above the cap.
PartyFullAboveCap(party) == Len(party.players) > PartyCap
\* if (party.players.length >= 4)
PartyFull(party) == Len(party.players) >= PartyCap

\* The refusal is not reported.
joinErrorUnreported(c, message) == << >>
\* socket.emit('joinError', { message })
joinError(c, message) == << To(c, "joinError", message) >>

\* A slip: a join puts the party back at its first room.
joinPartyRestarts(c, party) ==
    [party EXCEPT
        !.players = Append(@, c),
        !.state.currentRoom = 0,
        !.state.rooms = << generateRoom(0) >>,
        !.state.playerStates =
            [p \in DOMAIN @ \cup {c} |-> IF p = c THEN NewPlayerState ELSE @[p]]]

joinParty(c, party) ==
    [party EXCEPT
        !.players = Append(@, c),
        !.state.playerStates =
            [p \in DOMAIN @ \cup {c} |-> IF p = c THEN NewPlayerState ELSE @[p]]]

JoinParty(c, partyCode) ==
    /\ Handled(c)
    /\ intent' = "joinParty"
    /\ IF partyCode \notin Live
       THEN /\ out' = joinError(c, "Party not found")
            /\ UNCHANGED <<parties, subscribed>>
       ELSE IF PartyFull(parties[partyCode])
       THEN /\ out' = joinError(c, "Party is full")
            /\ UNCHANGED <<parties, subscribed>>
       ELSE /\ parties' = SetParty(partyCode, joinParty(c, parties[partyCode]))
            /\ subscribed' = [subscribed EXCEPT ![partyCode] = @ \cup {c}]
            /\ out' = << To(c, "joinSuccess", <<partyCode, parties'[partyCode].players>>),
                         Ev("playerJoined", partyCode, subscribed'[partyCode] \ {c}, c) >>
    /\ UNCHANGED <<sockets, order, gameOverSent, gameStartedSent, running>>

(***************************************************************************)
(* socket.on('startGame')                                                  *)
(***************************************************************************)
\* Any member of the party may start the game.
IsHostOrMember(c, partyCode) == IsMember(c, partyCode)
\* parties[partyCode] && parties[partyCode].host === socket.id
IsHost(c, partyCode) == partyCode \in Live /\ parties[partyCode].host = c

StartGame(c, partyCode) ==
    /\ Handled(c)
    /\ intent' = "startGame"
    /\ IF IsHost(c, partyCode)
       THEN /\ out' = << Ev("gameStarted", partyCode, subscribed[partyCode],
                            parties[partyCode].state) >>
            /\ gameStartedSent' = gameStartedSent \cup {partyCode}
       ELSE /\ out' = << >>
            /\ UNCHANGED gameStartedSent
    /\ UNCHANGED <<sockets, parties, order, subscribed, gameOverSent, running>>

(***************************************************************************)
(* socket.on('playerInput')                                                *)
(***************************************************************************)
Inputs == {"move"}

\* The handler reads parties[partyCode].players without testing
\* parties[partyCode]: for a code that names no party that is a TypeError.
PlayerInputUnguarded(c, partyCode, input) ==
    /\ Handled(c)
    /\ intent' = "playerInput"
    /\ IF partyCode \notin Live
       THEN uncaughtException(<< >>)
       ELSE /\ out' = IF Includes(parties[partyCode].players, c)
                      THEN << Ev("inputUpdate", partyCode, subscribed[partyCode] \ {c},
                                 <<c, input>>) >>
                      ELSE << >>
            /\ UNCHANGED <<sockets, parties, order, subscribed, gameOverSent,
                           gameStartedSent, running>>

PlayerInput(c, partyCode, input) ==
    /\ Handled(c)
    /\ intent' = "playerInput"
    /\ out' = IF IsMember(c, partyCode)
              THEN << Ev("inputUpdate", partyCode, subscribed[partyCode] \ {c}, <<c, input>>) >>
              ELSE << >>
    /\ UNCHANGED <<sockets, parties, order, subscribed, gameOverSent, gameStartedSent, running>>

(***************************************************************************)
(* socket.on('playerAttack')                                               *)
(***************************************************************************)
\* io.to(partyCode): the room's name and the sockets joined to it.
Room(partyCode, rooms) == [code |-> partyCode, sockets |-> rooms[partyCode]]

Attack(targetType, targetId, damage, hit) ==
    [targetType |-> targetType, targetId |-> targetId, damage |-> damage, hit |-> hit]
\* Hits on the first boss's id with every damage, and one attack of each
\* other shape: the next boss's id, an enemy id, type 'boss', a miss.
AttackData ==
    {Attack("enemy", Id("boss", 0), d, TRUE) : d \in AttackDamages}
        \cup {Attack("enemy", Id("boss", 1), 200, TRUE),
              Attack("enemy", Id("enemy", 0), 200, TRUE),
              Attack("boss", Id("boss", 0), 200, TRUE),
              Attack("enemy", Id("boss", 0), 200, FALSE)}

\* if (attackData.targetType === 'enemy' && attackData.hit)
\* A playerAttack sent without its payload, and one whose payload has no
\* targetId: what is missing reads as undefined.
Undefined == "undefined"
NoAttackData == Attack(Undefined, Id(Undefined, 0), 0, FALSE)
AttackWithoutTargetId == Attack("enemy", Id(Undefined, 0), 200, TRUE)
MalformedAttackData == {NoAttackData, AttackWithoutTargetId}

ProcessesHit(attackData) == attackData.targetType = "enemy" /\ attackData.hit
\* attackData.targetType of an undefined attackData, and
\* attackData.targetId.startsWith of an undefined targetId, are TypeErrors.
AttackThrows(attackData) ==
    \/ attackData = NoAttackData
    \/ ProcessesHit(attackData) /\ attackData.targetId = Id(Undefined, 0)
\* if (attackData.targetId.startsWith('boss') && currentRoom.boss)
IsBossHit(attackData, currentRoom) ==
    StartsWith(attackData.targetId, "boss") /\ currentRoom.boss # << >>
\* currentRoom.boss.health -= attackData.damage
HitBoss(boss, damage) == [boss EXCEPT !.health = @ - damage]
\* A slip: the boss is defeated only below 0.
BossDefeatedBelowZero(boss) == boss.health < 0
\* if (currentRoom.boss.health <= 0)
BossDefeated(boss) == boss.health <= 0
\* A slip: the next room is pushed and currentRoom is not incremented.
NextRoomKeepsIndex(state) ==
    [state EXCEPT !.rooms = Append(@, generateRoom(state.currentRoom + 1))]
\* A slip: the next room is generated from the index of the room just cleared.
NextRoomSameDifficulty(state) ==
    [state EXCEPT !.rooms = Append(@, generateRoom(state.currentRoom)),
                  !.currentRoom = @ + 1]
\* A slip: the next room is generated one index too far.
NextRoomSkipsOne(state) ==
    [state EXCEPT !.rooms = Append(@, generateRoom(state.currentRoom + 2)),
                  !.currentRoom = @ + 1]
\* partyState.rooms.push(generateRoom(partyState.currentRoom + 1)); partyState.currentRoom++
NextRoom(state) ==
    [state EXCEPT !.rooms = Append(@, generateRoom(state.currentRoom + 1)),
                  !.currentRoom = @ + 1]

attackBoss(state, room, attackData) ==
    LET cur == state.currentRoom
        boss == HitBoss(state.rooms[cur + 1].boss[1], attackData.damage)
        hit == [state EXCEPT !.rooms[cur + 1].boss = << boss >>]
    IN  IF BossDefeated(boss)
        THEN LET next == NextRoom(hit)
             IN  [state |-> next,
                  events |-> << Ev("roomCompleted", room.code, room.sockets,
                                   [defeatedBoss |-> boss,
                                    newRoom |-> next.rooms[next.currentRoom + 1]]) >>]
        ELSE [state |-> hit,
              events |-> << Ev("bossHealthUpdate", room.code, room.sockets, boss) >>]

attackEnemy(c, state, room, attackData) ==
    LET cur == state.currentRoom
        currentRoom == state.rooms[cur + 1]
        enemyIndex == FindIndexById(currentRoom.enemies, attackData.targetId)
    IN  IF enemyIndex = 0
        THEN [state |-> state, events |-> << >>]
        ELSE
        LET enemy == [currentRoom.enemies[enemyIndex] EXCEPT !.health = @ - attackData.damage]
        IN  IF enemy.health <= 0
            THEN LET removed ==
                         [state EXCEPT
                             !.rooms[cur + 1].enemies = RemoveAt(@, enemyIndex),
                             !.playerStates[c].kills = @ + 1]
                     defeated == Ev("enemyDefeated", room.code, room.sockets,
                                    [enemyId |-> enemy.id, killedBy |-> c])
                 IN  IF removed.rooms[cur + 1].enemies = << >> /\ currentRoom.boss = << >>
                     THEN LET next == NextRoom(removed)
                          IN  [state |-> next,
                               events |-> << defeated,
                                             Ev("roomCompleted", room.code, room.sockets,
                                                [roomCleared |-> TRUE,
                                                 newRoom |-> next.rooms[next.currentRoom + 1]]) >>]
                     ELSE [state |-> removed, events |-> << defeated >>]
            ELSE [state |-> [state EXCEPT !.rooms[cur + 1].enemies[enemyIndex] = enemy],
                  events |-> << Ev("enemyHealthUpdate", room.code, room.sockets,
                                   [enemyId |-> enemy.id, health |-> enemy.health]) >>]

\* The handler's body for a member of a live party.
playerAttack(c, state, room, attackData) ==
    LET relay == << Ev("playerAttacked", room.code, room.sockets \ {c}, <<c, attackData>>) >>
        hit == IF AttackThrows(attackData) \/ ~ProcessesHit(attackData)
               THEN [state |-> state, events |-> << >>]
               ELSE IF IsBossHit(attackData, state.rooms[state.currentRoom + 1])
               THEN attackBoss(state, room, attackData)
               ELSE IF StartsWith(attackData.targetId, "enemy")
               THEN attackEnemy(c, state, room, attackData)
               ELSE [state |-> state, events |-> << >>]
    IN  [state |-> hit.state, events |-> relay \o hit.events,
         throws |-> AttackThrows(attackData)]

\* The model explores rooms up to MaxRoom and boss healths up to BossHealthCap.
WithinBounds(state) ==
    /\ state.currentRoom <= MaxRoom
    /\ \A i \in 1..Len(state.rooms) :
           \A j \in 1..Len(state.rooms[i].boss) :
               state.rooms[i].boss[j].health <= BossHealthCap
    /\ \A p \in DOMAIN state.playerStates :
           state.playerStates[p].health <= PlayerHealthCap

PlayerAttack(c, partyCode, attackData) ==
    /\ Handled(c)
    /\ intent' = "playerAttack"
    /\ IF IsMember(c, partyCode)
       THEN LET r == playerAttack(c, parties[partyCode].state,
                                  Room(partyCode, subscribed), attackData)
            IN  IF r.throws
                THEN uncaughtException(r.events)
                ELSE /\ WithinBounds(r.state)
                     /\ parties' = [parties EXCEPT ![partyCode].state = r.state]
                     /\ out' = r.events
                     /\ UNCHANGED <<sockets, order, subscribed, gameOverSent,
                                    gameStartedSent, running>>
       ELSE /\ out' = << >>
            /\ UNCHANGED <<sockets, parties, order, subscribed, gameOverSent,
                           gameStartedSent, running>>

(***************************************************************************)
(* socket.on('playerDamaged')                                              *)
(***************************************************************************)
DamageData == [amount : DamageAmounts]
\* A playerDamaged sent without its payload: damageData is undefined.
NoDamageData == [undefined |-> TRUE]
MalformedDamageData == {NoDamageData}

\* damageData.amount of undefined is a TypeError.
DamageThrows(damageData) == damageData = NoDamageData

\* playerState.health = Math.max(0, playerState.health - damageData.amount)
ApplyDamage(playerState, damageData) ==
    [playerState EXCEPT !.health = Max(0, @ - damageData.amount)]
\* Object.values(playerStates).every(player => player.health <= 0)
AllPlayersDead(playerStates) ==
    \A p \in DOMAIN playerStates : playerStates[p].health <= 0

playerDamaged(c, state, room, damageData) ==
    LET playerState == ApplyDamage(state.playerStates[c], damageData)
        after == [state EXCEPT !.playerStates[c] = playerState]
        update == << Ev("playerHealthUpdate", room.code, room.sockets, <<c, playerState.health>>) >>
        died == IF playerState.health <= 0
                THEN << Ev("playerDied", room.code, room.sockets, c) >>
                ELSE << >>
        over == IF playerState.health <= 0 /\ AllPlayersDead(after.playerStates)
                THEN << Ev("gameOver", room.code, room.sockets,
                           [roomsCleared |-> after.currentRoom,
                            playerStats |-> after.playerStates]) >>
                ELSE << >>
    IN  [state |-> after, events |-> update \o died \o over]

PlayerDamaged(c, partyCode, damageData) ==
    /\ Handled(c)
    /\ intent' = "playerDamaged"
    /\ IF IsMember(c, partyCode) /\ DamageThrows(damageData)
       THEN uncaughtException(<< >>)
       ELSE /\ IF IsMember(c, partyCode)
               THEN LET r == playerDamaged(c, parties[partyCode].state,
                                           Room(partyCode, subscribed), damageData)
                    IN  /\ WithinBounds(r.state)
                        /\ parties' = [parties EXCEPT ![partyCode].state = r.state]
                        /\ out' = r.events
                        /\ gameOverSent' = IF Emitted(r.events, "gameOver", partyCode)
                                           THEN gameOverSent \cup {partyCode}
                                           ELSE gameOverSent
               ELSE /\ out' = << >>
                    /\ UNCHANGED <<parties, gameOverSent>>
            /\ UNCHANGED <<sockets, order, subscribed, gameStartedSent, running>>

(***************************************************************************)
(* socket.on('collectLoot')                                                *)
(***************************************************************************)
LootIds == {Id("loot", 0)}

collectLoot(c, state, room, lootId) ==
    LET cur == state.currentRoom
        currentRoom == state.rooms[cur + 1]
        lootIndex == FindIndexById(currentRoom.loot, lootId)
    IN  IF lootIndex = 0
        THEN [state |-> state, events |-> << >>]
        ELSE
        LET loot == currentRoom.loot[lootIndex]
            taken == [state EXCEPT !.rooms[cur + 1].loot = RemoveAt(@, lootIndex)]
            playerState == state.playerStates[c]
            collected == << Ev("lootCollected", room.code, room.sockets, [lootId |-> lootId, playerId |-> c]) >>
        IN  IF loot.type = "health"
            THEN LET healed == [playerState EXCEPT
                                   !.health = Min(playerState.maxHealth, @ + loot.value)]
                 IN  [state |-> [taken EXCEPT !.playerStates[c] = healed],
                      events |-> << Ev("playerHealthUpdate", room.code, room.sockets, <<c, healed.health>>) >>
                                     \o collected]
            ELSE IF loot.type = "maxHealth"
            THEN LET raised == [playerState EXCEPT !.maxHealth = @ + loot.value,
                                                   !.health = @ + loot.value]
                 IN  [state |-> [taken EXCEPT !.playerStates[c] = raised],
                      events |-> << Ev("playerStatsUpdate", room.code, room.sockets, <<c, raised>>) >>
                                     \o collected]
            ELSE [state |-> taken, events |-> collected]

CollectLoot(c, partyCode, lootId) ==
    /\ Handled(c)
    /\ intent' = "collectLoot"
    /\ IF IsMember(c, partyCode)
       THEN LET r == collectLoot(c, parties[partyCode].state,
                                 Room(partyCode, subscribed), lootId)
            IN  /\ WithinBounds(r.state)
                /\ parties' = [parties EXCEPT ![partyCode].state = r.state]
                /\ out' = r.events
       ELSE /\ out' = << >>
            /\ UNCHANGED parties
    /\ UNCHANGED <<sockets, order, subscribed, gameOverSent, gameStartedSent, running>>

(***************************************************************************)
(* socket.on('disconnect').  socket.io has taken the socket out of every   *)
(* room before the handler runs.                                           *)
(***************************************************************************)
LeaveAll(c) == [k \in Codes |-> subscribed[k] \ {c}]

\* The first party, in enumeration order, whose players hold the socket.
FirstPartyOf(c) ==
    LET keys == SelectSeq(KeyOrder, LAMBDA k : Includes(parties[k].players, c))
    IN  IF keys = << >> THEN << >> ELSE << keys[1] >>

\* An emptied party is kept in the registry.
PartyEmptyNever(players) == FALSE
\* if (party.players.length === 0) delete parties[partyCode]
PartyEmpty(players) == Len(players) = 0

\* The host is reassigned on every departure that leaves a member.
MigratesOnAnyDeparture(c, party, players) == Len(players) > 0
\* if (party.host === socket.id) { if (party.players.length > 0) ... }
Migrates(c, party, players) == party.host = c /\ Len(players) > 0

\* The party after the departure, and whether it was deleted.
disconnect(c, party, room) ==
    LET players == RemoveAt(party.players, IndexOf(party.players, c))
        left == << Ev("playerLeft", room.code, room.sockets, c) >>
        migrate == Migrates(c, party, players)
        host == IF migrate THEN players[1] ELSE party.host
        newHost == IF migrate THEN << Ev("newHost", room.code, room.sockets, host) >> ELSE << >>
    IN  [party |-> [party EXCEPT
                       !.players = players,
                       !.host = host,
                       !.state.playerStates = [p \in DOMAIN @ \ {c} |-> @[p]]],
         deleted |-> PartyEmpty(players),
         events |-> left \o newHost]

Disconnect(c) ==
    /\ Handled(c)
    /\ intent' = "disconnect"
    /\ sockets' = [sockets EXCEPT ![c] = "closed"]
    /\ subscribed' = LeaveAll(c)
    /\ UNCHANGED running
    /\ IF FirstPartyOf(c) = << >>
       THEN /\ out' = << >>
            /\ UNCHANGED <<parties, order, gameOverSent, gameStartedSent>>
       ELSE LET partyCode == FirstPartyOf(c)[1]
                r == disconnect(c, parties[partyCode], Room(partyCode, subscribed'))
            IN  /\ out' = r.events
                /\ IF r.deleted
                   THEN /\ parties' = DeleteParty(partyCode)
                        /\ order' = SelectSeq(order, LAMBDA k : k # partyCode)
                        /\ gameOverSent' = gameOverSent \ {partyCode}
                        /\ gameStartedSent' = gameStartedSent \ {partyCode}
                   ELSE /\ parties' = [parties EXCEPT ![partyCode] = r.party]
                        /\ UNCHANGED <<order, gameOverSent, gameStartedSent>>

Next ==
    \/ \E c \in Conns : HostParty(c)
    \/ \E c \in Conns, partyCode \in JoinCodes : JoinParty(c, partyCode)
    \/ \E c \in Conns, partyCode \in Codes : StartGame(c, partyCode)
    \/ \E c \in Conns, partyCode \in Codes, input \in Inputs :
           PlayerInput(c, partyCode, input)
    \/ \E c \in Conns, partyCode \in Codes,
             attackData \in AttackData \cup MalformedAttackData :
           PlayerAttack(c, partyCode, attackData)
    \/ \E c \in Conns, partyCode \in Codes,
             damageData \in DamageData \cup MalformedDamageData :
           PlayerDamaged(c, partyCode, damageData)
    \/ \E c \in Conns, partyCode \in Codes, lootId \in LootIds :
           CollectLoot(c, partyCode, lootId)
    \/ \E c \in Conns : Disconnect(c)

Spec == Init /\ [][Next]_vars

(***************************************************************************)
(* The server followed from a lobby: socket 1 has hosted party "ABCDEF"    *)
(* and the other sockets, up to one below the cap, have joined it in the   *)
(* order of their ids.  The lobby is the state hostParty and joinParty     *)
(* leave behind; MaxSteps intents are followed from there.                 *)
(***************************************************************************)
LobbyCode == "ABCDEF"
LobbySize == Min(MaxConns, PartyCap - 1)

RECURSIVE Joined(_, _)
Joined(party, n) == IF n <= 1 THEN party ELSE joinParty(n, Joined(party, n - 1))

LobbyParty == Joined(hostParty(1, LobbyCode), LobbySize)

InitLobby ==
    /\ sockets = [c \in Conns |-> "open"]
    /\ parties = [k \in {LobbyCode} |-> LobbyParty]
    /\ order = << LobbyCode >>
    /\ subscribed = [k \in Codes |-> IF k = LobbyCode THEN 1..LobbySize ELSE {}]
    /\ out = IF LobbySize = 1
             THEN << To(1, "partyHosted", LobbyCode) >>
             ELSE << To(LobbySize, "joinSuccess", <<LobbyCode, LobbyParty.players>>),
                     Ev("playerJoined", LobbyCode, 1..(LobbySize - 1), LobbySize) >>
    /\ gameOverSent = {}
    /\ gameStartedSent = {}
    /\ running = TRUE
    /\ intent = IF LobbySize = 1 THEN "hostParty" ELSE "joinParty"
    /\ steps = 0
    /\ currentBoss = << >>

SpecLobby == InitLobby /\ [][Next]_vars

(***************************************************************************)
(* The server followed from a deletion: socket 1 has hosted party "ABCDEF" *)
(* and has disconnected, which deleted the party; then socket 2 has hosted *)
(* party "234567" and socket 3 has joined it.                              *)
(***************************************************************************)
DeletedCode == "ABCDEF"
SecondCode == "234567"

InitDeleted ==
    LET party == joinParty(3, hostParty(2, SecondCode))
    IN  /\ sockets = [c \in Conns |-> IF c = 1 THEN "closed" ELSE "open"]
        /\ parties = [k \in {SecondCode} |-> party]
        /\ order = << SecondCode >>
        /\ subscribed = [k \in Codes |-> IF k = SecondCode THEN {2, 3} ELSE {}]
        /\ out = << To(3, "joinSuccess", <<SecondCode, party.players>>),
                    Ev("playerJoined", SecondCode, {2}, 3) >>
        /\ gameOverSent = {}
        /\ gameStartedSent = {}
        /\ running = TRUE
        /\ intent = "joinParty"
        /\ steps = 0
        /\ currentBoss = << >>

SpecDeleted == InitDeleted /\ [][Next]_vars

(***************************************************************************)
(* The descent: a socket has hosted a party and then defeats boss after    *)
(* boss, each with one playerAttack of exactly the boss's health, down to  *)
(* room MaxDifficulty.  Every step is the playerAttack handler; the rooms  *)
(* list holds every room generateRoom produced on the way.                 *)
(***************************************************************************)
MaxDifficulty == 100

InitDescent ==
    \E c \in Conns, partyCode \in Codes :
        /\ sockets = [s \in Conns |-> "open"]
        /\ parties = [k \in {partyCode} |-> hostParty(c, partyCode)]
        /\ order = << partyCode >>
        /\ subscribed = [k \in Codes |-> IF k = partyCode THEN {c} ELSE {}]
        /\ out = << To(c, "partyHosted", partyCode) >>
        /\ gameOverSent = {}
        /\ gameStartedSent = {}
        /\ running = TRUE
        /\ intent = "hostParty"
        /\ steps = 0
        /\ currentBoss = << >>

DefeatBoss(c, partyCode) ==
    /\ sockets[c] = "open"
    /\ IsMember(c, partyCode)
    /\ parties[partyCode].state.currentRoom < MaxDifficulty
    /\ LET boss == CurrentRoomOf(parties[partyCode]).boss[1]
           r == playerAttack(c, parties[partyCode].state, Room(partyCode, subscribed),
                             Attack("enemy", boss.id, boss.health, TRUE))
       IN  /\ parties' = [parties EXCEPT ![partyCode].state = r.state]
           /\ out' = r.events
    /\ intent' = "playerAttack"
    /\ steps' = steps + 1
    /\ UNCHANGED <<sockets, order, subscribed, gameOverSent, gameStartedSent, running,
                   currentBoss>>

NextDescent == \E c \in Conns, partyCode \in Codes : DefeatBoss(c, partyCode)

SpecDescent == InitDescent /\ [][NextDescent]_vars

(***************************************************************************)
(* The boss on a client (src/client/js/entities/boss.js).  The client      *)
(* builds a Boss from the boss of the room data the server sent            *)
(* (Game.spawnBoss), damages it locally (Boss.takeDamage), takes its       *)
(* health from every bossHealthUpdate (updateBoss in main.js) and checks   *)
(* its phase at every frame (Boss.update, Boss.checkPhase).  One Boss is   *)
(* followed from its spawn.                                                *)
(***************************************************************************)
\* this.phaseThresholds = [0.7, 0.4, 0.2], in tenths.
phaseThresholds == << 7, 4, 2 >>

\* new Boss(id, type, game)
Boss(id, type) ==
    [id |-> id,
     type |-> type,
     health |-> 200 + (type * 100),
     maxHealth |-> 200 + (type * 100),
     phase |-> 1,
     phaseTransition |-> FALSE]

\* Game.spawnBoss(bossData): the server's boss has no maxHealth, so
\* bossData.maxHealth || bossData.health is bossData.health.
spawnBoss(bossData) ==
    LET boss == Boss(bossData.id, bossData.type)
    IN  IF bossData.health # 0
        THEN [boss EXCEPT !.health = bossData.health,
                          !.maxHealth = IF "maxHealth" \in DOMAIN bossData
                                        THEN bossData.maxHealth
                                        ELSE bossData.health]
        ELSE boss

\* A slip: the phase advances whatever the health is.
checkPhaseWithoutThreshold(boss) ==
    IF boss.phase <= Len(phaseThresholds) /\ ~boss.phaseTransition
    THEN [boss EXCEPT !.phaseTransition = TRUE, !.phase = @ + 1]
    ELSE boss

\* Boss.checkPhase: healthPercent <= phaseThresholds[phase - 1], in tenths.
checkPhase(boss) ==
    IF /\ boss.phase <= Len(phaseThresholds)
       /\ 10 * boss.health <= phaseThresholds[boss.phase] * boss.maxHealth
       /\ ~boss.phaseTransition
    THEN [boss EXCEPT !.phaseTransition = TRUE, !.phase = @ + 1]
    ELSE boss

\* The bosses of the rooms the client is sent, and what bossHealthUpdate
\* carries: the server's boss, whose health after a hit is above 0.
SpawnDifficulties == {0, 5}
BossData == {generateRoom(d).boss[1] : d \in SpawnDifficulties}
UpdateHealths == {h \in 1..BossHealthCap : h % 20 = 0}
BossHealthUpdates == {[b EXCEPT !.health = h] : b \in BossData, h \in UpdateHealths}
LocalDamages == {30, 100}

InitBoss ==
    /\ sockets = [c \in Conns |-> "open"]
    /\ parties = [k \in {} |-> 0]
    /\ order = << >>
    /\ subscribed = [k \in Codes |-> {}]
    /\ out = << >>
    /\ gameOverSent = {}
    /\ gameStartedSent = {}
    /\ running = TRUE
    /\ intent = "connection"
    /\ steps = 0
    /\ \E bossData \in BossData : currentBoss = << spawnBoss(bossData) >>

\* Boss.update(delta): if (!this.mesh || this.health <= 0) return; then
\* this.checkPhase().
Update ==
    /\ currentBoss # << >>
    /\ currentBoss[1].health > 0
    /\ currentBoss' = << checkPhase(currentBoss[1]) >>
    /\ UNCHANGED serverVars

\* The last flash of performPhaseTransition: this.phaseTransition = false.
EndPhaseTransition ==
    /\ currentBoss # << >>
    /\ currentBoss[1].phaseTransition
    /\ currentBoss' = << [currentBoss[1] EXCEPT !.phaseTransition = FALSE] >>
    /\ UNCHANGED serverVars

\* Boss.takeDamage(amount): this.health = Math.max(0, this.health - amount)
TakeDamage(amount) ==
    /\ currentBoss # << >>
    /\ currentBoss' = << [currentBoss[1] EXCEPT !.health = Max(0, @ - amount)] >>
    /\ UNCHANGED serverVars

\* updateBoss(data) in main.js, called for every bossHealthUpdate with the
\* boss the server sent: the health is taken, and the phase if data has one.
UpdateBoss(data) ==
    /\ currentBoss # << >>
    /\ currentBoss' =
           << [currentBoss[1] EXCEPT
                  !.health = data.health,
                  !.phase = IF "phase" \in DOMAIN data THEN data.phase ELSE @] >>
    /\ UNCHANGED serverVars

NextBoss ==
    \/ Update
    \/ EndPhaseTransition
    \/ \E amount \in LocalDamages : TakeDamage(amount)
    \/ \E data \in BossHealthUpdates : UpdateBoss(data)

SpecBoss == InitBoss /\ [][NextBoss]_vars

(***************************************************************************)
(* Properties.                                                             *)
(***************************************************************************)
RoomIndex(party) == party.state.currentRoom
\* The health the generator gave the boss of room `difficulty`.
GeneratedMaxHealth(difficulty) == generateRoom(difficulty).boss[1].health
CurrentBoss(party) == CurrentRoomOf(party).boss[1]
\* The handler received playerAttack from a member of party `code`: the
\* relay to the other members is the first event it emits.
AttackIn(events, code) ==
    /\ events # << >>
    /\ events[1].name = "playerAttacked"
    /\ events[1].room = code
Attacker(events) == events[1].data[1]
AttackOf(events) == events[1].data[2]

\* C1: a party's currentRoom never decreases, a room completion raises it by
\* exactly 1 (and nothing else changes it), and rooms[currentRoom] is defined.
C1_RoomIndexAdvancesByOne ==
    [][\A code \in Codes :
        /\ code \in DOMAIN parties' =>
               RoomIndex(parties'[code]) < Len(parties'[code].state.rooms)
        /\ code \in Live /\ code \in DOMAIN parties' =>
               /\ RoomIndex(parties'[code]) >= RoomIndex(parties[code])
               /\ Emitted(out', "roomCompleted", code) =>
                      RoomIndex(parties'[code]) = RoomIndex(parties[code]) + 1
               /\ RoomIndex(parties'[code]) # RoomIndex(parties[code]) =>
                      Emitted(out', "roomCompleted", code)]_vars

\* A party has just completed its second room.
C1_Witness ==
    \E code \in Live :
        /\ RoomIndex(parties[code]) = 2
        /\ Len(parties[code].state.rooms) = 3
        /\ Emitted(out, "roomCompleted", code)

\* C2: the health of every boss and enemy of every room of every party is
\* at least 0 and at most the health it was generated with.
C2_TargetHealthInRange ==
    \A code \in Live :
        \A i \in 1..Len(parties[code].state.rooms) :
            LET room == parties[code].state.rooms[i]
            IN  /\ \A j \in 1..Len(room.boss) :
                       /\ room.boss[j].health >= 0
                       /\ room.boss[j].health <= GeneratedMaxHealth(room.difficulty)
                /\ \A j \in 1..Len(room.enemies) : room.enemies[j].health >= 0

\* What C3 promises of a lethal hit on the current boss of party `code`.
RoomCompletedBy(code) ==
    LET before == parties[code].state
        after == parties'[code].state
    IN  /\ after.currentRoom = before.currentRoom + 1
        /\ Len(after.rooms) = Len(before.rooms) + 1
        /\ after.rooms[Len(after.rooms)] = generateRoom(before.currentRoom + 1)
        /\ \E i \in 1..Len(out') :
               /\ out'[i].name = "roomCompleted"
               /\ out'[i].room = code
               /\ out'[i].data.newRoom.difficulty = before.currentRoom + 1
               /\ out'[i].data.newRoom.id = Id("room", before.currentRoom + 1)
               /\ \A m \in Conns :
                      sockets[m] = "open" /\ IsMember(m, code) => m \in out'[i].to

\* The step handles a member's playerAttack of type `targetType` with
\* hit = true, the id of the current boss and damage at least its health.
LethalBossHit(code, targetType) ==
    /\ code \in Live
    /\ AttackIn(out', code)
    /\ AttackOf(out').targetType = targetType
    /\ AttackOf(out').hit
    /\ AttackOf(out').targetId = CurrentBoss(parties[code]).id
    /\ AttackOf(out').damage >= CurrentBoss(parties[code]).health

C4_DefeatedBossIdIsDropped ==
    [][\A code \in Codes :
        (/\ code \in Live
         /\ AttackIn(out', code)
         /\ StartsWith(AttackOf(out').targetId, "boss")
         /\ AttackOf(out').targetId.n < RoomIndex(parties[code]))
        => /\ parties'[code].state.rooms = parties[code].state.rooms
           /\ RoomIndex(parties'[code]) = RoomIndex(parties[code])
           /\ ~Emitted(out', "bossHealthUpdate", code)
           /\ ~Emitted(out', "roomCompleted", code)]_vars

\* C5: two processed hits on the current boss, by two members of the party,
\* handled one after the other, whose damages add up to the boss's health
\* before the first: exactly one of the two completes the room, and
\* currentRoom ends one above where it was.
C5_ExactlyLethalPairCompletesOnce ==
    [][\A code \in Codes :
        (code \in Live /\ AttackIn(out, code) /\ AttackIn(out', code)) =>
            LET c1 == Attacker(out)
                a1 == AttackOf(out)
                c2 == Attacker(out')
                a2 == AttackOf(out')
                done1 == Emitted(out, "roomCompleted", code)
                done2 == Emitted(out', "roomCompleted", code)
                room0 == IF done1 THEN RoomIndex(parties[code]) - 1
                                  ELSE RoomIndex(parties[code])
                afterFirst == parties[code].state.rooms[room0 + 1].boss[1].health
            IN  (/\ c1 # c2
                 /\ a1.targetType = "enemy" /\ a1.hit
                 /\ a2.targetType = "enemy" /\ a2.hit
                 /\ a1.targetId = Id("boss", room0)
                 /\ a2.targetId = Id("boss", room0)
                 /\ a2.damage = afterFirst)
                => /\ done1 # done2
                   /\ RoomIndex(parties'[code]) = room0 + 1]_vars

\* A party of two has just completed a room by a hit that brought the boss
\* to exactly 0 and was smaller than the health the boss was generated with.
C5_Witness ==
    \E code \in Live :
        /\ AttackIn(out, code)
        /\ \E i, j \in 1..Len(parties[code].players) :
               parties[code].players[i] # parties[code].players[j]
        /\ \E i \in 1..Len(out) :
               /\ out[i].name = "roomCompleted"
               /\ out[i].data.defeatedBoss.health = 0
               /\ AttackOf(out).damage > 0
               /\ AttackOf(out).damage
                      < GeneratedMaxHealth(RoomIndex(parties[code]) - 1)

\* Every current member of the party has a PlayerState with health 0.
AllMembersDead(party) ==
    /\ Len(party.players) > 0
    /\ \A i \in 1..Len(party.players) :
           /\ party.players[i] \in DOMAIN party.state.playerStates
           /\ party.state.playerStates[party.players[i]].health = 0

\* C6: gameOver is emitted to a party only when every current member has
\* health 0, and is emitted whenever the party comes to have every current
\* member at health 0.
C6_GameOverIffAllMembersDead ==
    [][\A code \in Codes :
        code \in DOMAIN parties' =>
            /\ Emitted(out', "gameOver", code) => AllMembersDead(parties'[code])
            /\ (/\ AllMembersDead(parties'[code])
                /\ ~(code \in Live /\ AllMembersDead(parties[code])))
               => Emitted(out', "gameOver", code)]_vars

\* C7: gameOver is emitted at most once to a party, with roomsCleared equal
\* to the party's currentRoom.
C7_GameOverExactlyOnce ==
    [][\A code \in Codes :
        \A i \in 1..Len(out') :
            (out'[i].name = "gameOver" /\ out'[i].room = code)
            => /\ code \notin gameOverSent
               /\ out'[i].data.roomsCleared = RoomIndex(parties'[code])]_vars

CombatEvents ==
    {"bossHealthUpdate", "roomCompleted", "enemyDefeated", "enemyHealthUpdate",
     "playerHealthUpdate", "playerDied", "gameOver"}

\* C8: once gameOver was emitted to a party, a playerAttack or playerDamaged
\* for it leaves the party's record as it is and emits no combat event.
C8_NoCombatAfterGameOver ==
    [][\A c \in Conns, code \in gameOverSent :
        ((\E a \in AttackData : PlayerAttack(c, code, a))
            \/ (\E d \in DamageData : PlayerDamaged(c, code, d)))
        => /\ code \in DOMAIN parties'
           /\ parties'[code] = parties[code]
           /\ \A i \in 1..Len(out') :
                  ~(out'[i].room = code /\ out'[i].name \in CombatEvents)]_vars

\* C9: every player's health is at least 0 and at most the player's maxHealth.
C9_PlayerHealthInRange ==
    \A code \in Live :
        \A p \in DOMAIN parties[code].state.playerStates :
            /\ parties[code].state.playerStates[p].health >= 0
            /\ parties[code].state.playerStates[p].health
                   <= parties[code].state.playerStates[p].maxHealth

\* C10: no party's member list holds the same socket id twice.
C10_NoDuplicateMembers ==
    \A code \in Live :
        \A i, j \in 1..Len(parties[code].players) :
            i # j => parties[code].players[i] # parties[code].players[j]

\* The handler that ran in this step was the disconnect of socket c.
Disconnects(c) ==
    intent' = "disconnect" /\ sockets[c] = "open" /\ sockets'[c] = "closed"
\* party.players after players.splice(playerIndex, 1) for socket c.
Remaining(party, c) == RemoveAt(party.players, IndexOf(party.players, c))

\* C11: when the host of a party disconnects and the member list is not empty
\* after its removal, the party stays in the registry, its new host is the
\* front of the member list after the removal, and newHost with that host is
\* broadcast to the sockets still in the party's room.
C11_HostMigratesToFrontMember ==
    [][\A c \in Conns, code \in Live :
        (/\ Disconnects(c)
         /\ parties[code].host = c
         /\ Includes(parties[code].players, c)
         /\ Len(parties[code].players) > 1)
            => /\ code \in DOMAIN parties'
               /\ parties'[code].players = Remaining(parties[code], c)
               /\ parties'[code].host = Remaining(parties[code], c)[1]
               /\ \E i \in DOMAIN out' :
                      out'[i] = Ev("newHost", code, subscribed'[code], parties'[code].host)]_vars

\* C12: every party in the registry has at least one entry in its member
\* list; the disconnect that empties a member list deletes the party in the
\* same step, so no state holds a party without members.
C12_NoEmptyParty ==
    \A code \in Live : Len(parties[code].players) > 0
\* A disconnect has just removed the only member of a party, and the party
\* is gone from the registry.
C12_Witness ==
    /\ intent = "disconnect"
    /\ \E code \in Codes \ Live, c \in Conns :
           /\ sockets[c] = "closed"
           /\ out = << Ev("playerLeft", code, {}, c) >>

\* C13: a socket that has disconnected is in the member list of no party and
\* has no PlayerState in any party.
C13_DisconnectedSocketIsGone ==
    \A c \in Conns, code \in Live :
        sockets[c] = "closed"
            => /\ ~Includes(parties[code].players, c)
               /\ c \notin DOMAIN parties[code].state.playerStates

\* C14: a disconnect of a socket that is not the host of a party leaves that
\* party in the registry with the same host and emits no newHost for it; and
\* no disconnect both emits newHost for a party and deletes that party.
C14_DepartureOutcomesExclusive ==
    [][\A c \in Conns, code \in Live :
        Disconnects(c)
            => /\ parties[code].host # c
                    => /\ ~Emitted(out', "newHost", code)
                       /\ code \in DOMAIN parties'
                       /\ parties'[code].host = parties[code].host
               /\ ~(Emitted(out', "newHost", code) /\ code \notin DOMAIN parties')]_vars
\* A member that is not the host has just left a party: playerLeft is the
\* only event, and the party is still there under its host.
C14_Witness ==
    /\ intent = "disconnect"
    /\ \E code \in Live, c \in Conns :
           /\ sockets[c] = "closed"
           /\ parties[code].host # c
           /\ sockets[parties[code].host] = "open"
           /\ out = << Ev("playerLeft", code, subscribed[code], c) >>

\* The lobby is a state the server reaches from its start.
LobbyReached ==
    /\ parties = [k \in {LobbyCode} |-> LobbyParty]
    /\ subscribed = [k \in Codes |-> IF k = LobbyCode THEN 1..LobbySize ELSE {}]
    /\ order = << LobbyCode >>
    /\ intent = "joinParty"
    /\ \A c \in Conns : sockets[c] = "open"

\* C15: no party has more than 4 members, and a joinParty for a party that
\* has 4 members sends joinError 'Party is full' to the joiner alone and
\* changes neither the registry (members, playerStates, encounter state) nor
\* the rooms the sockets are in.
C15_FullPartyRejectsJoin ==
    [][/\ \A code \in DOMAIN parties' : Len(parties'[code].players) <= 4
       /\ \A c \in Conns, code \in Live :
              (Len(parties[code].players) >= 4 /\ JoinParty(c, code))
                  => /\ out' = << To(c, "joinError", "Party is full") >>
                     /\ parties' = parties
                     /\ subscribed' = subscribed]_vars
\* A joinParty has just been refused by a party of 4.
C15_Witness ==
    /\ intent = "joinParty"
    /\ \E c \in Conns : out = << To(c, "joinError", "Party is full") >>
    /\ \E code \in Live : Len(parties[code].players) = 4

\* C16: a joinParty with a code that is not a key of the registry sends
\* joinError 'Party not found' to the joiner alone, creates no party and
\* leaves every party, and the rooms the sockets are in, as they were.
C16_UnknownCodeRejectsJoin ==
    [][\A c \in Conns, code \in Codes \ Live :
        (intent' = "joinParty" /\ JoinParty(c, code))
            => /\ out' = << To(c, "joinError", "Party not found") >>
               /\ parties' = parties
               /\ order' = order
               /\ subscribed' = subscribed]_vars
\* A joinParty has just been refused for its code, with a party in the
\* registry.
C16_Witness ==
    /\ intent = "joinParty"
    /\ \E c \in Conns : out = << To(c, "joinError", "Party not found") >>
    /\ Live # {}

\* Socket c sends playerInput, playerAttack, playerDamaged or collectLoot for
\* party code in this step.
GameplayIntent(c, code) ==
    \/ intent' = "playerInput" /\ \E input \in Inputs : PlayerInput(c, code, input)
    \/ intent' = "playerAttack"
          /\ \E attackData \in AttackData : PlayerAttack(c, code, attackData)
    \/ intent' = "playerDamaged"
          /\ \E damageData \in DamageData : PlayerDamaged(c, code, damageData)
    \/ intent' = "collectLoot" /\ \E lootId \in LootIds : CollectLoot(c, code, lootId)

\* C17: a playerInput, playerAttack, playerDamaged or collectLoot sent by a
\* socket that is not in the member list of the party it names is dropped:
\* the registry and the rooms are unchanged and no event is emitted.
C17_NonMemberIntentDropped ==
    [][\A c \in Conns, code \in Codes :
        (/\ ~(code \in Live /\ Includes(parties[code].players, c))
         /\ GameplayIntent(c, code))
            => /\ out' = << >>
               /\ UNCHANGED <<sockets, parties, order, subscribed,
                              gameOverSent, gameStartedSent>>]_vars
\* A playerAttack has just been dropped while every code names a party: a
\* member's attack is always relayed as playerAttacked, so the sender was not
\* a member of the party it named.
C17_Witness ==
    /\ intent = "playerAttack"
    /\ out = << >>
    /\ Live = Codes

\* The encounter of party code is as it was, and nothing reports a change.
EncounterUntouched(code) ==
    /\ code \in DOMAIN parties'
    /\ parties'[code].state.rooms = parties[code].state.rooms
    /\ parties'[code].state.currentRoom = parties[code].state.currentRoom
    /\ ~Emitted(out', "roomCompleted", code)
    /\ ~Emitted(out', "bossHealthUpdate", code)
    /\ ~Emitted(out', "enemyHealthUpdate", code)

\* C18: an attack by a member of a party whose host has not yet sent
\* startGame is rejected: boss and enemy health, currentRoom and rooms are
\* unchanged and neither roomCompleted nor a health update is emitted.
C18_AttackBeforeStartRejected ==
    [][\A code \in Live :
        (code \notin gameStartedSent /\ AttackIn(out', code))
            => EncounterUntouched(code)]_vars

\* The ids of the boss and of the enemies of the party's current room.
TargetIds(party) ==
    LET currentRoom == CurrentRoomOf(party)
    IN  {currentRoom.boss[i].id : i \in DOMAIN currentRoom.boss}
            \cup {currentRoom.enemies[i].id : i \in DOMAIN currentRoom.enemies}

\* C19: an attack whose target id is neither the id of the current room's
\* boss nor the id of an enemy of the current room changes no health value,
\* neither currentRoom nor rooms, and emits neither a health update nor
\* roomCompleted.
C19_UnknownTargetIgnored ==
    [][\A code \in Live :
        (/\ AttackIn(out', code)
         /\ AttackOf(out').targetId \notin TargetIds(parties[code]))
            => EncounterUntouched(code)]_vars

\* C20: a startGame from a socket that is not the current host of the party
\* it names emits nothing and changes nothing, and a startGame from the
\* current host (the new one after a migration) emits gameStarted.
C20_OnlyHostStartsGame ==
    [][\A c \in Conns, code \in Codes :
        (intent' = "startGame" /\ StartGame(c, code))
            => IF code \in Live /\ parties[code].host = c
               THEN out' = << Ev("gameStarted", code, subscribed[code],
                                 parties[code].state) >>
               ELSE /\ out' = << >>
                    /\ UNCHANGED <<sockets, parties, order, subscribed,
                                   gameOverSent, gameStartedSent>>]_vars
\* A startGame has just been ignored while every code names a party: the
\* host's startGame always emits gameStarted, so the sender was not the host
\* of the party it named.
\* The same after a migration: the lobby's first host has left and the host
\* is now another socket.
C20_Witness ==
    /\ intent = "startGame"
    /\ out = << >>
    /\ Live = Codes
    /\ sockets[1] = "closed"
    /\ parties[LobbyCode].host # 1
    /\ sockets[parties[LobbyCode].host] = "open"

\* C21: over the lifetime of a party gameStarted is emitted at most once: a
\* party that has been sent gameStarted is never sent it again, however many
\* startGame intents its host sends.
C21_GameStartedExactlyOnce ==
    [][\A code \in Live :
        code \in gameStartedSent => ~Emitted(out', "gameStarted", code)]_vars

\* The socket ids in a party's member list.
MemberIds(party) == {party.players[i] : i \in DOMAIN party.players}

\* C23: for every party in the registry, the sockets in the party's room
\* (its broadcast group) are exactly the socket ids in its member list.
C23_BroadcastGroupEqualsMembers ==
    \A code \in Live : subscribed[code] = MemberIds(parties[code])

\* Every room in the registry, with the index it has in its rooms list.
RoomsAt(n) ==
    {parties[code].state.rooms[n + 1] :
        code \in {k \in Live : n < Len(parties[k].state.rooms)}}
RoomIndices == 0..MaxDifficulty

\* C27: the room generated for index n has room archetype min(floor(n/3), 4)
\* and boss archetype min(floor(n/5), 4); both are non-decreasing in n and
\* never above 4.
C27_TiersFollowIndex ==
    /\ \A n \in RoomIndices : \A room \in RoomsAt(n) :
           /\ room.type = roomTypes[(IF n \div 3 < 4 THEN n \div 3 ELSE 4) + 1].name
           /\ room.boss[1].type = (IF n \div 5 < 4 THEN n \div 5 ELSE 4)
           /\ room.boss[1].name = bossTypes[room.boss[1].type + 1].name
    /\ \A n \in RoomIndices \ {0} : \A room \in RoomsAt(n), before \in RoomsAt(n - 1) :
           /\ before.boss[1].type <= room.boss[1].type
           /\ room.boss[1].type <= 4
\* A party has descended to the rooms where both archetypes are capped.
C27_Witness ==
    \E code \in Live :
        /\ parties[code].state.currentRoom >= 21
        /\ CurrentRoomOf(parties[code]).type = "Throne Room"
        /\ CurrentRoomOf(parties[code]).boss[1].name = "Deathlord"

\* The boss of a party's current room as generateRoom made it: in the
\* descent no attack has reached it yet.
FreshBosses == {CurrentRoomOf(parties[code]).boss[1] : code \in Live}

C29_OneBossNoEnemies ==
    \A code \in Live :
        \A i \in DOMAIN parties[code].state.rooms :
            /\ Len(parties[code].state.rooms[i].boss) = 1
            /\ parties[code].state.rooms[i].enemies = << >>
\* A party holds the room hostParty generated, its boss defeated, and the
\* room the completion generated.
C29_Witness ==
    \E code \in Live :
        /\ Len(parties[code].state.rooms) = 2
        /\ parties[code].state.rooms[1].boss[1].health <= 0
        /\ Emitted(out, "roomCompleted", code)

\* C30: the code hostParty returns is not the key of a party in the registry:
\* the new party is added under a new key and every party that was there is
\* still there, unaltered.
C30_HostedCodeIsFresh ==
    [][intent' = "hostParty"
        => \E c \in Conns, code \in Codes :
              /\ out' = << To(c, "partyHosted", code) >>
              /\ code \notin Live
              /\ DOMAIN parties' = Live \cup {code}
              /\ \A k \in Live : parties'[k] = parties[k]]_vars
\* A party has just been hosted while another one was in the registry.
C30_Witness ==
    /\ intent = "hostParty"
    /\ \E c \in Conns, code \in Live :
           /\ out = << To(c, "partyHosted", code) >>
           /\ Live \ {code} # {}

\* Member c of party code sends a playerAttack or a playerDamaged whose
\* payload is missing, or a playerAttack whose payload has no targetId.
MalformedIntent(c, code) ==
    \/ intent' = "playerAttack"
          /\ \E attackData \in MalformedAttackData : PlayerAttack(c, code, attackData)
    \/ intent' = "playerDamaged"
          /\ \E damageData \in MalformedDamageData : PlayerDamaged(c, code, damageData)

\* C25: a malformed intent from a member is a no-op for that intent alone:
\* the process keeps running, so later intents are handled, and the registry
\* is as it was.
C25_MalformedIntentIsNoOp ==
    [][\A c \in Conns, code \in Live :
        (Includes(parties[code].players, c) /\ MalformedIntent(c, code))
            => /\ running'
               /\ parties' = parties
               /\ sockets' = sockets]_vars

\* The state after the deletion is a state the server reaches from its start.
DeletedReached ==
    /\ sockets = [c \in Conns |-> IF c = 1 THEN "closed" ELSE "open"]
    /\ parties = [k \in {SecondCode} |-> joinParty(3, hostParty(2, SecondCode))]
    /\ subscribed = [k \in Codes |-> IF k = SecondCode THEN {2, 3} ELSE {}]
    /\ intent = "joinParty"

\* Socket c sends startGame, playerInput, playerAttack, playerDamaged or
\* collectLoot, well-formed or not, for party code in this step.
PartyIntent(c, code) ==
    \/ intent' = "startGame" /\ StartGame(c, code)
    \/ intent' = "playerInput" /\ \E input \in Inputs : PlayerInput(c, code, input)
    \/ intent' = "playerAttack"
          /\ \E attackData \in AttackData \cup MalformedAttackData :
                 PlayerAttack(c, code, attackData)
    \/ intent' = "playerDamaged"
          /\ \E damageData \in DamageData \cup MalformedDamageData :
                 PlayerDamaged(c, code, damageData)
    \/ intent' = "collectLoot" /\ \E lootId \in LootIds : CollectLoot(c, code, lootId)

\* C24: a startGame, playerInput, playerAttack, playerDamaged or collectLoot
\* that names a code whose party is not in the registry (it has been deleted)
\* is dropped without error: nothing is emitted, the registry and the rooms
\* are unchanged, and the process keeps running.
C24_DeletedPartyIntentDropped ==
    [][\A c \in Conns, code \in Codes \ Live :
        PartyIntent(c, code)
            => /\ out' = << >>
               /\ running'
               /\ UNCHANGED <<sockets, parties, order, subscribed,
                              gameOverSent, gameStartedSent>>]_vars
\* A playerInput has just been dropped while every open socket is a member
\* of the one party in the registry: a member's playerInput is always
\* relayed, so the intent named the code of the party that was deleted.
C24_Witness ==
    /\ intent = "playerInput"
    /\ out = << >>
    /\ running
    /\ Live = {SecondCode}
    /\ \A c \in Conns : sockets[c] = "open" => IsMember(c, SecondCode)

\* Socket c sends an intent that names party code in this step.
NamesParty(c, code) ==
    \/ intent' = "joinParty" /\ JoinParty(c, code)
    \/ PartyIntent(c, code)
\* The members of party code after the step.
MembersAfter(code) ==
    IF code \in DOMAIN parties' THEN MemberIds(parties'[code]) ELSE {}

\* C22: an intent that names party code changes no other party (its member
\* list, host, playerStates and encounter state stay as they were) and its
\* events go to members of the named party only, or back to the sender
\* itself as a reply.
C22_IntentStaysInItsParty ==
    [][\A c \in Conns, code \in Codes :
        NamesParty(c, code)
            => /\ \A other \in Live \ {code} :
                      /\ other \in DOMAIN parties'
                      /\ parties'[other] = parties[other]
               /\ \A i \in DOMAIN out' :
                      out'[i].to \subseteq MembersAfter(code) \cup {c}]_vars

\* C31: a joinParty whose code differs from the code of a party in the
\* registry only in letter case resolves to that party: unless the party is
\* full, the joiner is appended to its member list and is sent joinSuccess.
C31_JoinCodeCaseInsensitive ==
    [][\A c \in Conns, typed \in LowerCaseCodes :
        (/\ intent' = "joinParty"
         /\ JoinParty(c, typed)
         /\ toUpperCase(typed) \in Live
         /\ ~PartyFull(parties[toUpperCase(typed)]))
            => /\ parties'[toUpperCase(typed)].players
                      = Append(parties[toUpperCase(typed)].players, c)
               /\ \E i \in DOMAIN out' :
                      out'[i].name = "joinSuccess" /\ out'[i].to = {c}]_vars

\* C32: right after hostParty by socket c the new party has host c, member
\* list [c], currentRoom 0, rooms [generateRoom(0)] and a PlayerState for c
\* alone, with health = maxHealth = 100 and kills = 0; partyHosted with the
\* party's code is the only event and goes to c only.
C32_HostedPartyIsFresh ==
    [][intent' = "hostParty"
        => \E c \in Conns, code \in DOMAIN parties' \ Live :
              /\ sockets[c] = "open"
              /\ parties'[code].host = c
              /\ parties'[code].players = << c >>
              /\ parties'[code].state.currentRoom = 0
              /\ parties'[code].state.rooms = << generateRoom(0) >>
              /\ DOMAIN parties'[code].state.playerStates = {c}
              /\ parties'[code].state.playerStates[c].health = 100
              /\ parties'[code].state.playerStates[c].maxHealth = 100
              /\ parties'[code].state.playerStates[c].kills = 0
              /\ Len(out') = 1
              /\ out'[1].name = "partyHosted"
              /\ out'[1].data = code
              /\ out'[1].to = {c}]_vars
\* A socket has just hosted a party and holds the only PlayerState in it,
\* while another socket stays open without a party.
C32_Witness ==
    /\ intent = "hostParty"
    /\ \E c \in Conns, code \in Live :
           /\ out = << To(c, "partyHosted", code) >>
           /\ parties[code].host = c
           /\ DOMAIN parties[code].state.playerStates = {c}
           /\ \E other \in Conns \ {c} :
                  sockets[other] = "open" /\ \A k \in Live : ~IsMember(other, k)

\* Socket c's joinParty for party code is accepted in this step.
JoinAccepted(c, code) ==
    /\ intent' = "joinParty"
    /\ code \in Live
    /\ ~PartyFull(parties[code])
    /\ JoinParty(c, code)

\* C33: an accepted joinParty appends the joiner to the end of the member
\* list and leaves the earlier entries in their order; joinSuccess with the
\* new member list goes to the joiner only and playerJoined goes to every
\* other member of the party.
C33_JoinAppendsAndNotifies ==
    [][\A c \in Conns, code \in Live :
        JoinAccepted(c, code)
            => /\ parties'[code].players = Append(parties[code].players, c)
               /\ out' = << To(c, "joinSuccess", <<code, parties'[code].players>>),
                            Ev("playerJoined", code, MemberIds(parties[code]) \ {c}, c) >>]_vars

\* C34: in every party the socket ids that have a PlayerState are exactly
\* the socket ids in the member list.
C34_PlayerStatesMatchMembers ==
    \A code \in Live :
        DOMAIN parties[code].state.playerStates = MemberIds(parties[code])

\* C35: a player whose health has reached 0 stays in the member list and in
\* playerStates, and a later playerDamaged for that player emits neither
\* playerHealthUpdate nor playerDied.
C35_DeadPlayerTakesNoDamage ==
    [][\A c \in Conns, code \in Live :
        (/\ IsMember(c, code)
         /\ parties[code].state.playerStates[c].health = 0
         /\ intent' = "playerDamaged"
         /\ \E damageData \in DamageData : PlayerDamaged(c, code, damageData))
            => /\ Includes(parties'[code].players, c)
               /\ c \in DOMAIN parties'[code].state.playerStates
               /\ ~Emitted(out', "playerHealthUpdate", code)
               /\ ~Emitted(out', "playerDied", code)]_vars

\* C36: a step that is not a playerAttack leaves every party's currentRoom
\* and rooms list as they were (a join, a startGame, a playerInput, a
\* playerDamaged, a collectLoot, a disconnect with or without host
\* migration), and a step that changes a party's currentRoom or the length
\* of its rooms list is a playerAttack by a member of that party that has
\* brought the boss of the room that was current to 0 or below.
C36_OnlyLethalAttackAdvances ==
    [][\A code \in Live \cap DOMAIN parties' :
        LET before == parties[code].state
            after == parties'[code].state
        IN  /\ intent' # "playerAttack"
                => /\ after.rooms = before.rooms
                   /\ after.currentRoom = before.currentRoom
            /\ (after.currentRoom # before.currentRoom
                    \/ Len(after.rooms) # Len(before.rooms))
                => /\ intent' = "playerAttack"
                   /\ AttackIn(out', code)
                   /\ before.rooms[before.currentRoom + 1].boss[1].health > 0
                   /\ after.rooms[before.currentRoom + 1].boss[1].health <= 0]_vars
\* The host has left a party of two that had completed its first room: the
\* host has migrated and the party is still in its second room.
C36_Witness ==
    /\ intent = "disconnect"
    /\ \E code \in Live :
           /\ parties[code].state.currentRoom = 1
           /\ Len(parties[code].state.rooms) = 2
           /\ Emitted(out, "newHost", code)

\* C37: a boss's phase starts at 1, and in every step it stays within 1..4
\* and does not decrease; it changes only by one, from a phase that has a
\* threshold (0.7, 0.4, 0.2 for the phases 1, 2, 3) while health / maxHealth
\* is at or below that threshold.
C37_PhaseAdvancesByThreshold ==
    /\ \A i \in DOMAIN currentBoss : currentBoss[i].phase = 1
    /\ [][\A i \in DOMAIN currentBoss \cap DOMAIN currentBoss' :
            LET before == currentBoss[i]
                after == currentBoss'[i]
            IN  /\ after.phase \in 1..4
                /\ after.phase >= before.phase
                /\ after.phase # before.phase
                       => /\ after.phase = before.phase + 1
                          /\ \/ before.phase = 1 /\ 10 * before.health <= 7 * before.maxHealth
                             \/ before.phase = 2 /\ 10 * before.health <= 4 * before.maxHealth
                             \/ before.phase = 3 /\ 10 * before.health <= 2 * before.maxHealth]_vars
\* The boss has reached its last phase, at or below a fifth of its health,
\* and its transition is over.
C37_Witness ==
    \E i \in DOMAIN currentBoss :
        /\ currentBoss[i].phase = 4
        /\ ~currentBoss[i].phaseTransition
        /\ currentBoss[i].health > 0
        /\ 10 * currentBoss[i].health <= 2 * currentBoss[i].maxHealth

\* C38: the host of every party is one of the socket ids in the party's
\* member list and is a socket that is connected.
C38_HostIsConnectedMember ==
    \A code \in Live :
        /\ Includes(parties[code].players, parties[code].host)
        /\ sockets[parties[code].host] = "open"

\* C39: every party has currentRoom + 1 rooms, and the room at position i
\* (from 0) has difficulty i, id room-i and a boss with id boss-i, so the
\* ids of a party's bosses are pairwise distinct.
C39_RoomsIndexedFromZero ==
    \A code \in Live :
        LET rooms == parties[code].state.rooms
        IN  /\ Len(rooms) = parties[code].state.currentRoom + 1
            /\ \A i \in DOMAIN rooms :
                   /\ rooms[i].difficulty = i - 1
                   /\ rooms[i].id = Id("room", i - 1)
                   /\ Len(rooms[i].boss) = 1
                   /\ rooms[i].boss[1].id = Id("boss", i - 1)
            /\ \A i, j \in DOMAIN rooms :
                   i # j => rooms[i].boss[1].id # rooms[j].boss[1].id
\* A party is in its third room, the bosses of the first two defeated.
C39_Witness ==
    /\ intent = "playerAttack"
    /\ \E code \in Live :
           /\ Len(parties[code].state.rooms) = 3
           /\ parties[code].state.rooms[1].boss[1].health <= 0
           /\ parties[code].state.rooms[2].boss[1].health <= 0
           /\ parties[code].state.rooms[3].boss[1].health > 0

\* C40: every socket id is in the member list of at most one party.
C40_AtMostOnePartyPerSocket ==
    \A c \in Conns : \A code, other \in Live :
        (Includes(parties[code].players, c) /\ Includes(parties[other].players, c))
            => code = other

====
